---- MODULE Spec2Model ----
(***************************************************************************)
(* The wallet service (src/src/services/wallet_service.rs): deposit,       *)
(* withdraw and transfer, each one database transaction against the        *)
(* wallets and transactions tables, run by concurrent request tasks.       *)
(*                                                                         *)
(* The store is PostgreSQL at READ COMMITTED: a SELECT ... FOR UPDATE      *)
(* waits until the row's lock is free, takes it and reads the committed    *)
(* row; writes of a transaction are private until COMMIT; COMMIT and       *)
(* ROLLBACK release the transaction's row locks; dropping an sqlx          *)
(* Transaction that was not committed rolls it back.                       *)
(***************************************************************************)
EXTENDS Integers, Sequences, FiniteSets, TLC

\* ------------------------------------------------------------------ bounds
\* The balance a wallet holds at the start when an earlier deposit filled it.
MaxSeed == 2
\* Largest amount a request carries.
MaxAmount == 2
\* Longest lock wait the clock follows.
MaxWait == 2
\* Rows of the transactions table whose history is read.
MaxRows == 3
\* Distinct creation times those rows carry at most.
MaxStamp == 2
MaxNow == 61

Procs == {"p1", "p2"}
Users == {"A", "B", "C"}
None == "none"

\* The rows of users: the users who have a wallet, and one whose wallet row is
\* missing (register stored the user and failed before it stored the wallet).
Registered == Users \cup {"D"}

\* users.email of every user row, and one address no user has.
email == [u \in Registered |-> CASE u = "A" -> "a@x.com"
                                 [] u = "B" -> "b@x.com"
                                 [] u = "C" -> "c@x.com"
                                 [] OTHER   -> "d@x.com"]
Emails == {email[u] : u \in Registered} \cup {"nobody@x.com"}
\* The amounts a request may carry: valid ones, zero and a negative one.
Amounts == (0 - 1) .. MaxAmount

VARIABLES
    balance,   \* wallets.balance, committed, by the wallet's user
    log,       \* the transactions table, committed rows in commit order
    lock,      \* row lock of each wallet: the process holding it, or None
    pc,        \* where each request task stands
    op,        \* the call each task runs: kind, user_id, amount, recipient_email
    tx,        \* each task's open transaction: its uncommitted writes
    local,     \* each task's local variables
    result,    \* what the task's last call returned
    snap,      \* history: the wallets the task locked, in the order it locked them,
               \* each with its committed balance and entry count at that moment
    mail,      \* the notification tasks each call has spawned, each "pending",
               \* "sent" or "failed"
    waited,    \* the time each task has spent so far in its pending lock wait
    users,     \* the users table: rows of id, email and password_hash
    wallet_owner, \* wallets.user_id of each wallet row
    auth,      \* each task's call of register or login: its inputs, where it
               \* stands, the user row it holds and what it returned
    history,   \* what each task's last call of get_history returned
    limiter,   \* the rate limiter's map: per IP its count and reset_time
    now,       \* the monotonic clock (Instant::now), in seconds
    req,       \* each task's request at the rate limiter: where it stands, its IP
    admits,    \* history: per IP the times of the requests handed to next.run,
               \* those of the last RATE_LIMIT_WINDOW seconds
    gate,      \* each task's request at the AuthUser extractor: its Authorization
               \* and Cookie headers, the handler it is routed to, where it stands
    clients,   \* NotificationService.clients: per user the connection whose
               \* channel the registered sender feeds, or None
    conn,      \* each WebSocket connection: its user and where handle_socket stands
    sent       \* what the last send_to_user did: the user and the connection reached

authVars == <<users, wallet_owner, auth>>
ledgerVars == <<balance, log, lock, pc, op, tx, local, result, snap, mail, waited,
                users, wallet_owner, auth, history>>
rateVars == <<limiter, now, req, admits>>
wsVars == <<clients, conn, sent>>
edgeVars == <<rateVars, gate, wsVars>>
vars == <<balance, log, lock, pc, op, tx, local, result, snap, mail, waited,
          users, wallet_owner, auth, history, edgeVars>>

\* ------------------------------------------------------------------ values
NoOp == [kind |-> None, user |-> None, amount |-> 0, email |-> None]
\* The addresses requests come from.
IPs == {"ip1", "ip2"}
\* An IP the limiter's map has no entry for, and a task with no request.
NoEntry == [present |-> FALSE, count |-> 0, reset_time |-> 0]
NoReq == [pc |-> "idle", ip |-> "none"]

\* A JWT signed with key, and a string that is no JWT.
Jwt(sub, key, expired) == [form |-> "jwt", sub |-> sub, key |-> key, expired |-> expired]
Junk == [form |-> "junk", sub |-> "none", key |-> "none", expired |-> FALSE]
\* A header that is not sent, and a task with no request at the extractor.
NoHeader == [present |-> FALSE, ascii |-> TRUE, carries |-> FALSE, token |-> Junk]
NoGate == [pc |-> "idle", header |-> NoHeader, cookie |-> NoHeader, kind |-> "none",
           status |-> "none"]

\* The WebSocket connections, one without a socket, and no send so far.
Conns == {"c1", "c2"}
NoConn == [pc |-> "closed", user |-> "none"]
NoSend == [user |-> "none", to |-> "none"]

\* The server has just started: the limiter's map is empty (main.rs,
\* HashMap::new()) and nobody holds its mutex.
InitEdge ==
    /\ limiter = [i \in IPs |-> NoEntry]
    /\ now = 0
    /\ req = [p \in Procs |-> NoReq]
    /\ admits = [i \in IPs |-> <<>>]
    /\ gate = [p \in Procs |-> NoGate]
    /\ clients = [u \in Users |-> None]
    /\ conn = [c \in Conns |-> NoConn]
    /\ sent = NoSend

NoTx == [open |-> FALSE, bal |-> <<>>, entries |-> <<>>]
NoLocal == [wallet |-> None, updated |-> None, recipient_user |-> None,
            recipient_wallet |-> None]
NoResult == [status |-> None, msg |-> None, balance |-> None]

Ok(b) == [status |-> "Ok", msg |-> None, balance |-> b]
Err(status, msg) == [status |-> status, msg |-> msg, balance |-> None]
ValidationError(msg) == Err("ValidationError", msg)
InsufficientBalance == Err("InsufficientBalance", None)
DatabaseError(e) == Err("DatabaseError", e)
NotFound(what) == Err("NotFound", what)

\* IntoResponse for AppError: the HTTP status a result is reported with.
StatusCode(r) ==
    CASE r.status = "ValidationError"     -> 400
      [] r.status = "InvalidCredentials"  -> 401
      [] r.status = "UserAlreadyExists"   -> 409
      [] r.status = "InternalError"       -> 500
      [] r.status = "NotFound"            -> 404
      [] r.status = "InsufficientBalance" -> 422
      [] r.status = "DatabaseError"       -> 500
      [] OTHER                            -> 200

Entry(wallet_id, type, amount, description) ==
    [wallet_id |-> wallet_id, transaction_type |-> type, amount |-> amount,
     description |-> description, status |-> "COMPLETED"]

NoAuth == [pc |-> "idle", kind |-> None, email |-> None, password |-> None,
           password_hash |-> None, full_name |-> None, lookup |-> None, user |-> 0,
           status |-> None]
NoHistory == [user |-> None, rows |-> <<>>]

\* The salts the password hasher may draw.
Salts == {"s1", "s2"}

\* Argon2 hash_password: the PHC string of the salt drawn and the digest of
\* password under it.
HashPassword(password, salt) ==
    [alg |-> "argon2id", salt |-> salt, digest |-> <<salt, password>>]

\* The rows of users the ledger's requests run against.
UserRows ==
    {[id |-> u, email |-> email[u], password_hash |-> HashPassword("password-1", "s1")]
        : u \in Registered}

\* ------------------------------------------------------------------ helpers
\* The validation refusing zero only.
InvalidAmountZeroOnly(amount) == amount = 0

\* amount <= Decimal::ZERO
InvalidAmount(amount) == amount <= 0

\* The comparison of the balance check turned around.
InsufficientReversed(bal, amount) == amount < bal

\* The balance check letting through an amount one above the balance.
InsufficientOffByOne(bal, amount) == bal + 1 < amount

\* wallet.balance < amount
Insufficient(bal, amount) == bal < amount

\* SELECT id FROM users WHERE email = $1
FindUserByEmail(e) == {u \in Registered : email[u] = e}

\* The wallet row as transaction p sees it: its own write, else the committed row.
RowSeenBy(p, u) == IF u \in DOMAIN tx[p].bal THEN tx[p].bal[u] ELSE balance[u]

\* The rows of wallet u in a transactions table l.
EntriesIn(l, u) == {i \in 1..Len(l) : l[i].wallet_id = u}
EntriesOf(u) == EntriesIn(log, u)

LocksOf(p) == {u \in Users : lock[u] = p}

\* The wallets row as a statement outside the transactions would see it if it read
\* uncommitted writes.
GetWalletDirty(u) ==
    IF \E p \in DOMAIN tx : u \in DOMAIN tx[p].bal
    THEN tx[CHOOSE p \in DOMAIN tx : u \in DOMAIN tx[p].bal].bal[u]
    ELSE balance[u]

\* SELECT ... FROM wallets WHERE user_id = $1 on the pool, without FOR UPDATE:
\* the committed row, read without waiting for its lock.
GetWalletByUserId(u) == balance[u]

\* The rows of SELECT ... FROM transactions WHERE wallet_id = $1 on the pool: the
\* committed entries of the wallet.
HistoryRows(u) == EntriesOf(u)

\* The end of a transaction leaving its row locks in place.
ReleasedNothing(p) == lock

\* ROLLBACK, and COMMIT: the transaction's row locks are released.
Released(p) == [u \in Users |-> IF lock[u] = p THEN None ELSE lock[u]]

\* COMMIT: the transaction's balance writes become the committed rows.
Committed(p) == [u \in Users |-> RowSeenBy(p, u)]

Snapshot(u) == [user |-> u, bal |-> balance[u], n |-> Cardinality(EntriesOf(u))]

\* The committed deposits that brought the wallets to the balances `seed`, one
\* DEPOSIT row for each wallet that is not empty.
RECURSIVE SeedLog(_, _)
SeedLog(seed, us) ==
    IF us = {} THEN <<>>
    ELSE LET u == CHOOSE x \in us : TRUE
             rest == SeedLog(seed, us \ {u})
         IN IF seed[u] > 0
            THEN <<Entry(u, "DEPOSIT", seed[u], "Deposit funds")>> \o rest
            ELSE rest

\* Every wallet is created with balance 0.00; either none has been used yet or
\* each has received one deposit. No request is in progress.
Init ==
    /\ \E s \in {0, MaxSeed} :
         /\ balance = [u \in Users |-> s]
         /\ log = SeedLog([u \in Users |-> s], Users)
    /\ lock = [u \in Users |-> None]
    /\ pc = [p \in Procs |-> "idle"]
    /\ op = [p \in Procs |-> NoOp]
    /\ tx = [p \in Procs |-> NoTx]
    /\ local = [p \in Procs |-> NoLocal]
    /\ result = [p \in Procs |-> NoResult]
    /\ snap = [p \in Procs |-> <<>>]
    /\ mail = [p \in Procs |-> <<>>]
    /\ waited = [p \in Procs |-> 0]
    /\ users = UserRows
    /\ wallet_owner = [u \in Users |-> u]
    /\ auth = [p \in Procs |-> NoAuth]
    /\ history = [p \in Procs |-> NoHistory]
    /\ InitEdge

\* The statements run on the pool instead of the transaction: each is committed
\* on its own, and the early return leaves them in place.
AbortAutocommit(p, r) ==
    /\ pc' = [pc EXCEPT ![p] = "done"]
    /\ result' = [result EXCEPT ![p] = r]
    /\ balance' = [u \in Users |-> RowSeenBy(p, u)]
    /\ log' = log \o tx[p].entries
    /\ tx' = [tx EXCEPT ![p] = NoTx]
    /\ lock' = [u \in Users |-> IF lock[u] = p THEN None ELSE lock[u]]
    /\ local' = [local EXCEPT ![p] = NoLocal]
    /\ waited' = [waited EXCEPT ![p] = 0]
    /\ UNCHANGED <<op, snap, mail, authVars, history, edgeVars>>

\* The early return of an error from inside the transaction: tx is dropped, which
\* rolls it back.
Abort(p, r) ==
    /\ pc' = [pc EXCEPT ![p] = "done"]
    /\ result' = [result EXCEPT ![p] = r]
    /\ tx' = [tx EXCEPT ![p] = NoTx]
    /\ lock' = Released(p)
    /\ local' = [local EXCEPT ![p] = NoLocal]
    /\ waited' = [waited EXCEPT ![p] = 0]
    /\ UNCHANGED <<balance, log, op, snap, mail, authVars, history, edgeVars>>

\* A request arrives and its handler calls the service function, which validates
\* the amount before anything else.
Call(p, kind, u, amount, e, msg) ==
    /\ pc[p] = "idle"
    /\ op' = [op EXCEPT ![p] = [kind |-> kind, user |-> u, amount |-> amount,
                                email |-> e]]
    /\ IF InvalidAmount(amount)
       THEN /\ pc' = [pc EXCEPT ![p] = "done"]
            /\ result' = [result EXCEPT ![p] = ValidationError(msg)]
       ELSE /\ pc' = [pc EXCEPT ![p] = "begin"]
            /\ result' = [result EXCEPT ![p] = NoResult]
    /\ UNCHANGED <<balance, log, lock, tx, local, snap, mail, waited, authVars, history, edgeVars>>

CallDeposit(p, u, amount) ==
    Call(p, "deposit", u, amount, None, "Deposit amount must be greater than 0")

CallWithdraw(p, u, amount) ==
    Call(p, "withdraw", u, amount, None, "Withdrawal amount must be greater than 0")

CallTransfer(p, u, e, amount) ==
    Call(p, "transfer", u, amount, e, "Transfer amount must be greater than 0")

\* pool.begin()
Begin(p) ==
    /\ pc[p] = "begin"
    /\ tx' = [tx EXCEPT ![p] = [open |-> TRUE, bal |-> <<>>, entries |-> <<>>]]
    /\ pc' = [pc EXCEPT ![p] = "lock"]
    /\ UNCHANGED <<balance, log, lock, op, local, result, snap, mail, waited, authVars, history, edgeVars>>

\* The SELECT without FOR UPDATE: the row is read without waiting for or taking
\* its lock.
LockRowNoWait(p, u) ==
    /\ lock' = lock
    /\ snap' = [snap EXCEPT ![p] = Append(@, Snapshot(u))]
    /\ waited' = [waited EXCEPT ![p] = 0]

\* The SELECT ... FOR UPDATE without its WHERE clause: it takes the lock of every
\* row that is free.
LockEveryRow(p, u) ==
    /\ lock[u] = None
    /\ lock' = [v \in Users |-> IF lock[v] = None THEN p ELSE lock[v]]
    /\ snap' = [snap EXCEPT ![p] = Append(@, Snapshot(u))]
    /\ waited' = [waited EXCEPT ![p] = 0]

\* SELECT ... FROM wallets WHERE user_id = $1 FOR UPDATE: waits for the row lock,
\* takes it and returns the committed row.
LockRow(p, u) ==
    /\ lock[u] = None
    /\ lock' = [lock EXCEPT ![u] = p]
    /\ snap' = [snap EXCEPT ![p] = Append(@, Snapshot(u))]
    /\ waited' = [waited EXCEPT ![p] = 0]

\* UPDATE wallets SET balance = $1 WHERE id = $2, inside the transaction.
WriteBalance(t, u, b) == [t EXCEPT !.bal = (u :> b) @@ @]

\* INSERT INTO transactions (...), inside the transaction.
\* The INSERT storing its row twice.
InsertEntryTwice(t, e) == [t EXCEPT !.entries = Append(Append(@, e), e)]

InsertEntry(t, e) == [t EXCEPT !.entries = Append(@, e)]

\* The rows written as an upsert by wallet: they replace the wallet's earlier rows.
InsertedRowsUpsert(l, rows) ==
    SelectSeq(l, LAMBDA e : \A i \in 1..Len(rows) : rows[i].wallet_id # e.wallet_id) \o rows

\* The transactions table after the INSERTs of a committed transaction: every
\* statement on it is an INSERT, the rows are added to those present.
InsertedRows(l, rows) == l \o rows

\* tx.commit(): the writes and the inserted rows become visible together, the
\* locks are released.
CommitTx(p) ==
    /\ balance' = Committed(p)
    /\ log' = InsertedRows(log, tx[p].entries)
    /\ lock' = Released(p)
    /\ tx' = [tx EXCEPT ![p] = NoTx]

\* ------------------------------------------------------------------ deposit
DepositLock(p) ==
    /\ pc[p] = "lock" /\ op[p].kind = "deposit"
    /\ IF op[p].user \notin Users
       THEN Abort(p, NotFound("Wallet"))
       ELSE /\ LockRow(p, op[p].user)
            /\ local' = [local EXCEPT ![p].wallet = balance[op[p].user]]
            /\ pc' = [pc EXCEPT ![p] = "update"]
            /\ UNCHANGED <<balance, log, op, tx, result, mail, authVars, history, edgeVars>>

\* The deposit's UPDATE adding the amount twice.
DepositAddsTwice(bal, amount) == bal + amount + amount

DepositNewBalance(bal, amount) == bal + amount

DepositUpdate(p) ==
    /\ pc[p] = "update" /\ op[p].kind = "deposit"
    /\ LET new_balance == DepositNewBalance(local[p].wallet, op[p].amount) IN
        /\ tx' = [tx EXCEPT ![p] = WriteBalance(@, op[p].user, new_balance)]
        /\ local' = [local EXCEPT ![p].updated = new_balance]
    /\ pc' = [pc EXCEPT ![p] = "insert"]
    /\ UNCHANGED <<balance, log, lock, op, result, snap, mail, waited, authVars, history, edgeVars>>

DepositInsert(p) ==
    /\ pc[p] = "insert" /\ op[p].kind = "deposit"
    /\ tx' = [tx EXCEPT ![p] = InsertEntry(@, Entry(op[p].user, "DEPOSIT",
                                                   op[p].amount, "Deposit funds"))]
    /\ pc' = [pc EXCEPT ![p] = "commit"]
    /\ UNCHANGED <<balance, log, lock, op, local, result, snap, mail, waited, authVars, history, edgeVars>>

DepositCommit(p) ==
    /\ pc[p] = "commit" /\ op[p].kind = "deposit"
    /\ CommitTx(p)
    /\ pc' = [pc EXCEPT ![p] = "done"]
    /\ result' = [result EXCEPT ![p] = Ok(local[p].updated)]
    /\ local' = [local EXCEPT ![p] = NoLocal]
    /\ UNCHANGED <<op, snap, mail, waited, authVars, history, edgeVars>>

\* ----------------------------------------------------------------- withdraw
WithdrawLock(p) ==
    /\ pc[p] = "lock" /\ op[p].kind = "withdraw"
    /\ IF op[p].user \notin Users
       THEN Abort(p, NotFound("Wallet"))
       ELSE /\ LockRow(p, op[p].user)
            /\ local' = [local EXCEPT ![p].wallet = balance[op[p].user]]
            /\ pc' = [pc EXCEPT ![p] = "update"]
            /\ UNCHANGED <<balance, log, op, tx, result, mail, authVars, history, edgeVars>>

\* The new balance of a withdrawal computed as deposit computes its own.
WithdrawAdds(bal, amount) == bal + amount

WithdrawNewBalance(bal, amount) == bal - amount

\* The balance check on the locked row, then the UPDATE.
WithdrawUpdate(p) ==
    /\ pc[p] = "update" /\ op[p].kind = "withdraw"
    /\ IF Insufficient(local[p].wallet, op[p].amount)
       THEN Abort(p, InsufficientBalance)
       ELSE LET new_balance == WithdrawNewBalance(local[p].wallet, op[p].amount) IN
            /\ tx' = [tx EXCEPT ![p] = WriteBalance(@, op[p].user, new_balance)]
            /\ local' = [local EXCEPT ![p].updated = new_balance]
            /\ pc' = [pc EXCEPT ![p] = "insert"]
            /\ UNCHANGED <<balance, log, lock, op, result, snap, mail, waited, authVars, history, edgeVars>>

WithdrawInsert(p) ==
    /\ pc[p] = "insert" /\ op[p].kind = "withdraw"
    /\ tx' = [tx EXCEPT ![p] = InsertEntry(@, Entry(op[p].user, "WITHDRAWAL",
                                                   op[p].amount, "Withdraw funds"))]
    /\ pc' = [pc EXCEPT ![p] = "commit"]
    /\ UNCHANGED <<balance, log, lock, op, local, result, snap, mail, waited, authVars, history, edgeVars>>

WithdrawCommit(p) ==
    /\ pc[p] = "commit" /\ op[p].kind = "withdraw"
    /\ CommitTx(p)
    /\ pc' = [pc EXCEPT ![p] = "done"]
    /\ result' = [result EXCEPT ![p] = Ok(local[p].updated)]
    /\ local' = [local EXCEPT ![p] = NoLocal]
    /\ UNCHANGED <<op, snap, mail, waited, authVars, history, edgeVars>>

\* ----------------------------------------------------------------- transfer
\* 3. the sender's wallet, FOR UPDATE
TransferLockSender(p) ==
    /\ pc[p] = "lock" /\ op[p].kind = "transfer"
    /\ IF op[p].user \notin Users
       THEN Abort(p, NotFound("Sender wallet"))
       ELSE /\ LockRow(p, op[p].user)
            /\ local' = [local EXCEPT ![p].wallet = balance[op[p].user]]
            /\ pc' = [pc EXCEPT ![p] = "find"]
            /\ UNCHANGED <<balance, log, op, tx, result, mail, authVars, history, edgeVars>>

\* 4. the balance check, then 5. SELECT id FROM users WHERE email = $1 and the
\* comparison of the user found with the sender.
TransferFindRecipient(p) ==
    /\ pc[p] = "find" /\ op[p].kind = "transfer"
    /\ IF Insufficient(local[p].wallet, op[p].amount)
       THEN Abort(p, InsufficientBalance)
       ELSE IF FindUserByEmail(op[p].email) = {}
       THEN Abort(p, ValidationError("Recipient not found"))
       ELSE \E r \in FindUserByEmail(op[p].email) :
            IF r = op[p].user
            THEN Abort(p, ValidationError("Cannot transfer money to yourself"))
            ELSE /\ local' = [local EXCEPT ![p].recipient_user = r]
                 /\ pc' = [pc EXCEPT ![p] = "lock2"]
                 /\ UNCHANGED <<balance, log, lock, op, tx, result, snap, mail, waited, authVars, history, edgeVars>>

\* SELECT id FROM wallets WHERE user_id = $1 FOR UPDATE, the recipient's wallet
\* RowNotFound is returned as not_found("Recipient wallet").
TransferLockRecipient(p) ==
    /\ pc[p] = "lock2" /\ op[p].kind = "transfer"
    /\ IF local[p].recipient_user \notin Users
       THEN Abort(p, NotFound("Recipient wallet"))
       ELSE /\ LockRow(p, local[p].recipient_user)
            /\ local' = [local EXCEPT ![p].recipient_wallet = local[p].recipient_user]
            /\ pc' = [pc EXCEPT ![p] = "update"]
            /\ UNCHANGED <<balance, log, op, tx, result, mail, authVars, history, edgeVars>>

\* The sender's new balance computed without the debit.
TransferNoDebit(bal, amount) == bal

TransferNewSenderBalance(bal, amount) == bal - amount

\* 6. UPDATE wallets SET balance = new_sender_balance
TransferUpdateSender(p) ==
    /\ pc[p] = "update" /\ op[p].kind = "transfer"
    /\ LET new_sender_balance == TransferNewSenderBalance(local[p].wallet, op[p].amount) IN
        /\ tx' = [tx EXCEPT ![p] = WriteBalance(@, op[p].user, new_sender_balance)]
        /\ local' = [local EXCEPT ![p].updated = new_sender_balance]
    /\ pc' = [pc EXCEPT ![p] = "insert"]
    /\ UNCHANGED <<balance, log, lock, op, result, snap, mail, waited, authVars, history, edgeVars>>

SentEntry(wallet_id, amount) == Entry(wallet_id, "TRANSFER", amount, "Transfer sent")

TransferInsertSent(p) ==
    /\ pc[p] = "insert" /\ op[p].kind = "transfer"
    /\ tx' = [tx EXCEPT ![p] = InsertEntry(@, SentEntry(op[p].user, op[p].amount))]
    /\ pc' = [pc EXCEPT ![p] = "update2"]
    /\ UNCHANGED <<balance, log, lock, op, local, result, snap, mail, waited, authVars, history, edgeVars>>

\* The credit of the recipient left out.
TransferCreditMissing(bal, amount) == bal

\* 7. UPDATE wallets SET balance = balance + $1: computed by the store on the row
TransferCredit(bal, amount) == bal + amount

TransferUpdateRecipient(p) ==
    /\ pc[p] = "update2" /\ op[p].kind = "transfer"
    /\ LET r == local[p].recipient_wallet IN
        tx' = [tx EXCEPT ![p] = WriteBalance(@, r, TransferCredit(RowSeenBy(p, r),
                                                                  op[p].amount))]
    /\ pc' = [pc EXCEPT ![p] = "insert2"]
    /\ UNCHANGED <<balance, log, lock, op, local, result, snap, mail, waited, authVars, history, edgeVars>>

ReceivedEntry(wallet_id, amount) ==
    Entry(wallet_id, "TRANSFER", amount, "Transfer received")

TransferInsertReceived(p) ==
    /\ pc[p] = "insert2" /\ op[p].kind = "transfer"
    /\ tx' = [tx EXCEPT ![p] = InsertEntry(@, ReceivedEntry(local[p].recipient_wallet,
                                                           op[p].amount))]
    /\ pc' = [pc EXCEPT ![p] = "commit"]
    /\ UNCHANGED <<balance, log, lock, op, local, result, snap, mail, waited, authVars, history, edgeVars>>

\* The transfer committing without the notification.
TransferCommitSilent(p) ==
    /\ pc[p] = "commit" /\ op[p].kind = "transfer"
    /\ CommitTx(p)
    /\ pc' = [pc EXCEPT ![p] = "done"]
    /\ result' = [result EXCEPT ![p] = Ok(local[p].updated)]
    /\ local' = [local EXCEPT ![p] = NoLocal]
    /\ UNCHANGED <<op, snap, mail, waited, authVars, history, edgeVars>>

\* 8. commit, then 9. tokio::spawn of send_transfer_success, which is not
\* awaited; the sender's updated wallet is returned.
TransferCommit(p) ==
    /\ pc[p] = "commit" /\ op[p].kind = "transfer"
    /\ CommitTx(p)
    /\ mail' = [mail EXCEPT ![p] = Append(@, "pending")]
    /\ pc' = [pc EXCEPT ![p] = "done"]
    /\ result' = [result EXCEPT ![p] = Ok(local[p].updated)]
    /\ local' = [local EXCEPT ![p] = NoLocal]
    /\ UNCHANGED <<op, snap, waited, authVars, history, edgeVars>>

\* ------------------------------------------------------------ notification
\* The spawned task ends with the mail accepted by the SMTP relay: Ok(_), a line
\* is printed.
EmailSent(p) ==
    /\ \E i \in 1..Len(mail[p]) :
         /\ mail[p][i] = "pending"
         /\ mail' = [mail EXCEPT ![p][i] = "sent"]
    /\ UNCHANGED <<balance, log, lock, pc, op, tx, local, result, snap, waited, authVars, history, edgeVars>>

\* The error of the send awaited and returned by the call that spawned it.
EmailFailedPropagates(p) ==
    /\ \E i \in 1..Len(mail[p]) :
         /\ mail[p][i] = "pending"
         /\ mail' = [mail EXCEPT ![p][i] = "failed"]
    /\ result' = [result EXCEPT ![p].status = "InternalError", ![p].msg = "email"]
    /\ UNCHANGED <<balance, log, lock, pc, op, tx, local, snap, waited, authVars, history, edgeVars>>

\* The spawned task ends with the send failing: Err(e), a line is printed and
\* nothing is returned to anyone.
EmailFailed(p) ==
    /\ \E i \in 1..Len(mail[p]) :
         /\ mail[p][i] = "pending"
         /\ mail' = [mail EXCEPT ![p][i] = "failed"]
    /\ UNCHANGED <<balance, log, lock, pc, op, tx, local, result, snap, waited, authVars, history, edgeVars>>

\* -------------------------------------------------------------------- store
InTx == {"lock", "find", "lock2", "update", "insert", "update2", "insert2", "commit"}

\* The failed call rolled back and started again from begin().
StoreFaultRetried(p) ==
    /\ pc[p] \in InTx \cup {"begin"}
    /\ pc' = [pc EXCEPT ![p] = "begin"]
    /\ tx' = [tx EXCEPT ![p] = NoTx]
    /\ lock' = Released(p)
    /\ local' = [local EXCEPT ![p] = NoLocal]
    /\ waited' = [waited EXCEPT ![p] = 0]
    /\ UNCHANGED <<balance, log, op, result, snap, mail, authVars, history, edgeVars>>

\* A statement, begin() or commit() fails in the store: map_err(DatabaseError)?
\* returns the error and the transaction, if open, is dropped.
StoreFault(p) ==
    /\ pc[p] \in InTx \cup {"begin"}
    /\ Abort(p, DatabaseError("store unavailable"))

\* The wallet whose row lock p's pending FOR UPDATE asks for.
Wanted(p) ==
    CASE pc[p] = "lock"  -> IF op[p].user \in Users THEN op[p].user ELSE None
      [] pc[p] = "lock2" -> IF local[p].recipient_user \in Users
                            THEN local[p].recipient_user ELSE None
      [] OTHER           -> None

\* The process p waits for: the holder of the lock p asks for.
WaitsFor(p) == IF Wanted(p) = None THEN None ELSE lock[Wanted(p)]

RECURSIVE WaitChain(_, _)
WaitChain(p, n) ==
    IF n = 0 \/ p = None THEN p ELSE WaitChain(WaitsFor(p), n - 1)

\* p is part of a cycle of transactions each waiting for a lock the next holds.
InWaitCycle(p) == \E n \in 1..Cardinality(Procs) : WaitChain(p, n) = p

\* The store's deadlock detector ends a lock wait that is part of a cycle with an
\* error; the statement's map_err returns it as DatabaseError.
DeadlockDetected(p) ==
    /\ InWaitCycle(p)
    /\ Abort(p, DatabaseError("deadlock detected"))

\* Time passes while p's SELECT ... FOR UPDATE waits for a row lock another
\* transaction holds. No lock_timeout or statement_timeout is set on the pool or
\* in any statement, so the wait lasts until the holder ends; a wait that is part
\* of a cycle is left to the deadlock detector.
LockWait(p) ==
    /\ WaitsFor(p) \notin {None, p}
    /\ ~ InWaitCycle(p)
    /\ waited[p] < MaxWait
    /\ waited' = [waited EXCEPT ![p] = @ + 1]
    /\ UNCHANGED <<balance, log, lock, pc, op, tx, local, result, snap, mail, authVars, history, edgeVars>>

Next == \E p \in Procs :
    \/ \E u \in Registered, amount \in Amounts : CallDeposit(p, u, amount)
    \/ \E u \in Registered, amount \in Amounts : CallWithdraw(p, u, amount)
    \/ \E u \in Registered, e \in Emails, amount \in Amounts : CallTransfer(p, u, e, amount)
    \/ Begin(p)
    \/ DepositLock(p) \/ DepositUpdate(p) \/ DepositInsert(p) \/ DepositCommit(p)
    \/ WithdrawLock(p) \/ WithdrawUpdate(p) \/ WithdrawInsert(p) \/ WithdrawCommit(p)
    \/ TransferLockSender(p) \/ TransferFindRecipient(p) \/ TransferLockRecipient(p)
    \/ TransferUpdateSender(p) \/ TransferInsertSent(p)
    \/ TransferUpdateRecipient(p) \/ TransferInsertReceived(p) \/ TransferCommit(p)
    \/ StoreFault(p)
    \/ DeadlockDetected(p)
    \/ EmailSent(p) \/ EmailFailed(p)
    \/ LockWait(p)

Spec == Init /\ [][Next]_vars

\* ------------------------------------------------------------ contention
\* N or N + 1 concurrent withdrawals of balance / N each against one wallet: the
\* tasks Workers have all been called with the same valid amount for wallet "A",
\* which an earlier deposit brought to N times that amount. The store works.
Workers == {"w1", "w2", "w3"}

InitContention ==
    \E amount \in 1..MaxAmount, N \in {Cardinality(Workers) - 1, Cardinality(Workers)} :
        /\ balance = [u \in Users |-> IF u = "A" THEN N * amount ELSE 0]
        /\ log = <<Entry("A", "DEPOSIT", N * amount, "Deposit funds")>>
        /\ lock = [u \in Users |-> None]
        /\ pc = [w \in Workers |-> "begin"]
        /\ op = [w \in Workers |-> [kind |-> "withdraw", user |-> "A",
                                    amount |-> amount, email |-> None]]
        /\ tx = [w \in Workers |-> NoTx]
        /\ local = [w \in Workers |-> NoLocal]
        /\ result = [w \in Workers |-> NoResult]
        /\ snap = [w \in Workers |-> <<>>]
        /\ mail = [w \in Workers |-> <<>>]
        /\ waited = [w \in Workers |-> 0]
        /\ users = UserRows
        /\ wallet_owner = [u \in Users |-> u]
        /\ auth = [w \in Workers |-> NoAuth]
        /\ history = [w \in Workers |-> NoHistory]
        /\ InitEdge

NextContention == \E w \in Workers :
    \/ Begin(w)
    \/ WithdrawLock(w) \/ WithdrawUpdate(w) \/ WithdrawInsert(w) \/ WithdrawCommit(w)

SpecContention == InitContention /\ [][NextContention]_vars

\* ------------------------------------------------------------------ history
\* A row of transactions as the table holds it: the columns the INSERT sets and
\* created_at, which the column default fills with the time of creation.
Row(wallet_id, created_at) ==
    Entry(wallet_id, "DEPOSIT", 1, "Deposit funds") @@ [created_at |-> created_at]

\* ORDER BY created_at DESC over the rows S of the table l: every order of the
\* rows in which created_at never increases. Rows of equal created_at may come
\* in either order.
OrderByCreatedAtDesc(l, S) ==
    {h \in [1..Cardinality(S) -> S] :
        /\ \A i, j \in 1..Cardinality(S) : i # j => h[i] # h[j]
        /\ \A i \in 1..(Cardinality(S) - 1) : l[h[i]].created_at >= l[h[i + 1]].created_at}

\* The sequences get_history may return for the wallet of u, as row ids.
GetHistory(u) == OrderByCreatedAtDesc(log, HistoryRows(u))

\* A request for the history of u's wallet: fetch_all on the pool.
GetHistoryCall(p, u) ==
    /\ \E h \in GetHistory(u) :
         history' = [history EXCEPT ![p] = [user |-> u, rows |-> h]]
    /\ UNCHANGED <<balance, log, lock, pc, op, tx, local, result, snap, mail, waited,
                   authVars, edgeVars>>

\* The wallets whose history is read.
HistoryUsers == {"A", "B"}

\* A committed transactions table of MaxRows deposits of 1, in commit order, with
\* creation times that never go back; consecutive rows may carry the same time.
InitHistory ==
    /\ \E w \in [1..MaxRows -> HistoryUsers], t \in [1..MaxRows -> 1..MaxStamp] :
         /\ \A i \in 1..(MaxRows - 1) : t[i] <= t[i + 1]
         /\ log = [i \in 1..MaxRows |-> Row(w[i], t[i])]
         /\ balance = [u \in Users |-> Cardinality({i \in 1..MaxRows : w[i] = u})]
    /\ lock = [u \in Users |-> None]
    /\ pc = [p \in Procs |-> "idle"]
    /\ op = [p \in Procs |-> NoOp]
    /\ tx = [p \in Procs |-> NoTx]
    /\ local = [p \in Procs |-> NoLocal]
    /\ result = [p \in Procs |-> NoResult]
    /\ snap = [p \in Procs |-> <<>>]
    /\ mail = [p \in Procs |-> <<>>]
    /\ waited = [p \in Procs |-> 0]
    /\ users = UserRows
    /\ wallet_owner = [u \in Users |-> u]
    /\ auth = [p \in Procs |-> NoAuth]
    /\ history = [p \in Procs |-> NoHistory]
    /\ InitEdge

NextHistory == \E p \in Procs, u \in HistoryUsers : GetHistoryCall(p, u)

SpecHistory == InitHistory /\ [][NextHistory]_vars

\* --------------------------------------------------------------------- auth
\* The inputs of register and login.
AuthEmails == {"a@x.com", "b@x.com", " "}
Passwords == {"password-1", "password-2", "short"}
FullNames == {"Ann", " "}

\* str::trim
Trim(str) == IF str = " " THEN "" ELSE str
\* str::len
StrLen(str) == CASE str = "short" -> 5 [] str = " " -> 1 [] OTHER -> 10
MinPasswordLen == 8

\* Argon2 verify_password: the digest of password under the hash's salt is the
\* hash's digest.
VerifyPassword(password, hash) == hash.digest = <<hash.salt, password>>

\* The end of a call of register or login.
AuthReturn(p, status) == auth' = [auth EXCEPT ![p].pc = "done", ![p].status = status]

\* register: 1. validate the input, 2. hash the password
CallRegister(p, e, pw, name) ==
    /\ auth[p].pc = "idle"
    /\ IF \/ Trim(e) = ""
          \/ StrLen(pw) < MinPasswordLen
          \/ Trim(name) = ""
       THEN auth' = [auth EXCEPT ![p] = [NoAuth EXCEPT !.pc = "done", !.kind = "register",
                                            !.email = e, !.status = "ValidationError"]]
       ELSE \E salt \in Salts :
            auth' = [auth EXCEPT ![p] = [NoAuth EXCEPT !.pc = "create_user",
                        !.kind = "register", !.email = e, !.full_name = name,
                        !.password_hash = HashPassword(pw, salt)]]
    /\ UNCHANGED <<balance, log, lock, pc, op, tx, local, result, snap, mail, waited,
                   users, wallet_owner, history, edgeVars>>

\* 3. create_user: INSERT INTO users on the pool; a unique violation is returned
\* as UserAlreadyExists.
RegisterCreateUser(p) ==
    /\ auth[p].pc = "create_user"
    /\ IF \E r \in users : r.email = auth[p].email
       THEN AuthReturn(p, "UserAlreadyExists") /\ UNCHANGED users
       ELSE LET id == Cardinality(users) + 1 IN
            /\ users' = users \cup {[id |-> id, email |-> auth[p].email,
                                     password_hash |-> auth[p].password_hash]}
            /\ auth' = [auth EXCEPT ![p].pc = "create_wallet", ![p].user = id]
    /\ UNCHANGED <<balance, log, lock, pc, op, tx, local, result, snap, mail, waited,
                   wallet_owner, history, edgeVars>>

\* VALUES ($1, 0.00, 'USD')
NewWalletBalance == 0

\* 4. create_wallet: INSERT INTO wallets on the pool, then 5. the token and
\* 6. Ok.
RegisterCreateWallet(p) ==
    /\ auth[p].pc = "create_wallet"
    /\ balance' = Append(balance, NewWalletBalance)
    /\ wallet_owner' = Append(wallet_owner, auth[p].user)
    /\ AuthReturn(p, "Ok")
    /\ UNCHANGED <<log, lock, pc, op, tx, local, result, snap, mail, waited,
                   users, history, edgeVars>>

\* create_user or create_wallet fails in the store: DatabaseError is returned.
\* Each statement ran on the pool, so what an earlier statement stored stays.
RegisterStoreFault(p) ==
    /\ auth[p].pc \in {"create_user", "create_wallet"}
    /\ AuthReturn(p, "DatabaseError")
    /\ UNCHANGED <<balance, log, lock, pc, op, tx, local, result, snap, mail, waited,
                   users, wallet_owner, history, edgeVars>>

CallLogin(p, e, pw) ==
    /\ auth[p].pc = "idle"
    /\ auth' = [auth EXCEPT ![p] = [NoAuth EXCEPT !.pc = "find_user", !.kind = "login",
                                       !.email = e, !.password = pw]]
    /\ UNCHANGED <<balance, log, lock, pc, op, tx, local, result, snap, mail, waited,
                   users, wallet_owner, history, edgeVars>>

\* The error of find_user_by_email handed on as it is.
LoginLookupErrorHandedOn(e) == e

\* .map_err(|_| AppError::InvalidCredentials): whatever find_user_by_email failed
\* with.
LoginLookupError(e) == "InvalidCredentials"

\* 1. find_user_by_email, 2. verify_password, 3. the token and 4. Ok.
LoginFindUser(p) ==
    /\ auth[p].pc = "find_user"
    /\ IF \E r \in users : r.email = auth[p].email
       THEN \E r \in users :
            /\ r.email = auth[p].email
            /\ auth' = [auth EXCEPT ![p].pc = "done", ![p].lookup = "found",
                          ![p].user = r.id,
                          ![p].status = IF VerifyPassword(auth[p].password, r.password_hash)
                                        THEN "Ok" ELSE "InvalidCredentials"]
       ELSE auth' = [auth EXCEPT ![p].pc = "done", ![p].lookup = "RowNotFound",
                                 ![p].status = LoginLookupError("NotFound")]
    /\ UNCHANGED <<balance, log, lock, pc, op, tx, local, result, snap, mail, waited,
                   users, wallet_owner, history, edgeVars>>

\* find_user_by_email fails in the store.
LoginStoreFault(p) ==
    /\ auth[p].pc = "find_user"
    /\ auth' = [auth EXCEPT ![p].pc = "done", ![p].lookup = "fault",
                              ![p].status = LoginLookupError("DatabaseError")]
    /\ UNCHANGED <<balance, log, lock, pc, op, tx, local, result, snap, mail, waited,
                   users, wallet_owner, history, edgeVars>>

\* An empty database, or one in which a@x.com has registered with password-1.
InitAuth ==
    /\ \/ /\ users = {}
          /\ balance = <<>>
          /\ wallet_owner = <<>>
       \/ /\ users = {[id |-> 1, email |-> "a@x.com",
                       password_hash |-> HashPassword("password-1", "s1")]}
          /\ balance = <<NewWalletBalance>>
          /\ wallet_owner = <<1>>
    /\ log = <<>>
    /\ lock = [u \in Users |-> None]
    /\ pc = [p \in Procs |-> "idle"]
    /\ op = [p \in Procs |-> NoOp]
    /\ tx = [p \in Procs |-> NoTx]
    /\ local = [p \in Procs |-> NoLocal]
    /\ result = [p \in Procs |-> NoResult]
    /\ snap = [p \in Procs |-> <<>>]
    /\ mail = [p \in Procs |-> <<>>]
    /\ waited = [p \in Procs |-> 0]
    /\ auth = [p \in Procs |-> NoAuth]
    /\ history = [p \in Procs |-> NoHistory]
    /\ InitEdge

NextAuth == \E p \in Procs :
    \/ \E e \in AuthEmails, pw \in Passwords, name \in FullNames : CallRegister(p, e, pw, name)
    \/ RegisterCreateUser(p) \/ RegisterCreateWallet(p)
    \/ RegisterStoreFault(p)
    \/ \E e \in AuthEmails, pw \in Passwords : CallLogin(p, e, pw)
    \/ LoginFindUser(p)
    \/ LoginStoreFault(p)

SpecAuth == InitAuth /\ [][NextAuth]_vars

\* ------------------------------------------------------- rate limiter
RATE_LIMIT_WINDOW == 60
MAX_REQUESTS == 20

\* The clock is read at the window's start, at its last second and one second
\* after it.
Advances == {RATE_LIMIT_WINDOW, RATE_LIMIT_WINDOW + 1}

\* limiter.entry(ip).or_insert((0, Instant::now()))
EntryOrInsert(ip) ==
    IF limiter[ip].present THEN limiter[ip]
    ELSE [present |-> TRUE, count |-> 0, reset_time |-> now]

\* reset_time.elapsed() > RATE_LIMIT_WINDOW, off by a second.
WindowExpiredLate(reset_time) == now - reset_time > RATE_LIMIT_WINDOW + 1

\* reset_time.elapsed() > RATE_LIMIT_WINDOW
WindowExpired(reset_time) == now - reset_time > RATE_LIMIT_WINDOW

\* The comparison admitting one request more.
WithinLimitInclusive(count) == count <= MAX_REQUESTS

\* *count < MAX_REQUESTS
WithinLimit(count) == count < MAX_REQUESTS

\* The times of l that are at least t.
RECURSIVE Since(_, _)
Since(l, t) ==
    IF l = <<>> THEN <<>>
    ELSE IF Head(l) >= t THEN l ELSE Since(Tail(l), t)

\* A request from ip arrives at task p. The block under the limiter's mutex
\* runs without awaiting, so no other task's block overlaps it: the entry is
\* fetched or inserted, the window is restarted if it has expired, else the
\* count is raised if it is under the limit.
RateLimitCheck(p, ip) ==
    /\ req[p].pc = "idle"
    /\ LET e == EntryOrInsert(ip)
           expired == WindowExpired(e.reset_time)
           allowed == expired \/ WithinLimit(e.count)
       IN /\ limiter' = [limiter EXCEPT ![ip] =
                           IF expired
                           THEN [present |-> TRUE, count |-> 1, reset_time |-> now]
                           ELSE IF WithinLimit(e.count)
                                THEN [e EXCEPT !.count = @ + 1]
                                ELSE e]
          /\ req' = [req EXCEPT ![p] = [pc |-> IF allowed THEN "run" ELSE "rejected",
                                        ip |-> ip]]
          /\ admits' = [admits EXCEPT ![ip] =
                          IF allowed THEN Append(Since(@, now - RATE_LIMIT_WINDOW), now)
                          ELSE @]
    /\ UNCHANGED <<now, gate, wsVars, ledgerVars>>

\* next.run(req) has answered, or 429 TOO_MANY_REQUESTS has been returned.
RateLimitRespond(p) ==
    /\ req[p].pc \in {"run", "rejected"}
    /\ req' = [req EXCEPT ![p] = NoReq]
    /\ UNCHANGED <<limiter, now, admits, gate, wsVars, ledgerVars>>

\* Time passes.
Tick(d) ==
    /\ now + d <= MaxNow
    /\ now' = now + d
    /\ admits' = [i \in IPs |-> Since(admits[i], now' - RATE_LIMIT_WINDOW)]
    /\ UNCHANGED <<limiter, req, gate, wsVars, ledgerVars>>

NextRateLimit ==
    \/ \E p \in Procs, ip \in IPs : RateLimitCheck(p, ip)
    \/ \E p \in Procs : RateLimitRespond(p)
    \/ \E d \in Advances : Tick(d)

\* The ledger is at rest with empty wallets.
InitRateLimit == Init /\ \A u \in Users : balance[u] = 0

SpecRateLimit == InitRateLimit /\ [][NextRateLimit]_vars

\* ------------------------------------------------------- AuthUser extractor
\* state.jwt_secret, and the key of somebody else.
JwtSecret == "JWT_SECRET"
Keys == {JwtSecret, "other"}

\* The tokens sent: those generate_token has issued to A and to B, one of them
\* past its exp, one signed with another key, one whose sub is no UUID, and a
\* string that is no JWT.
Tokens == {Jwt("A", JwtSecret, FALSE), Jwt("B", JwtSecret, FALSE),
           Jwt("A", JwtSecret, TRUE), Jwt("A", "other", FALSE),
           Jwt("not-a-uuid", JwtSecret, FALSE), Junk}

\* A header, by what the extractor looks at: whether its bytes are visible
\* ASCII (to_str), and whether it carries a token, as "Bearer <token>" for
\* Authorization and as the cookie auth_token for Cookie.
Header(ascii, carries, token) ==
    [present |-> TRUE, ascii |-> ascii, carries |-> carries, token |-> token]
AuthorizationHeaders ==
    {NoHeader, Header(FALSE, FALSE, Junk), Header(TRUE, FALSE, Junk)}
        \cup {Header(TRUE, TRUE, t) : t \in Tokens}
CookieHeaders ==
    {NoHeader, Header(FALSE, FALSE, Junk), Header(TRUE, FALSE, Junk),
     Header(TRUE, TRUE, Jwt("B", JwtSecret, FALSE)), Header(TRUE, TRUE, Jwt("A", "other", FALSE))}
Handlers == {"deposit", "withdraw", "transfer", "history"}

\* What a step of the extractor yields: a token, nothing, or the error.
Some(t) == [is |-> "some", token |-> t]
Nothing == [is |-> "none", token |-> Junk]
Invalid == [is |-> "InvalidToken", token |-> Junk]

\* 1. the token of the Authorization header, if it starts with "Bearer ".
BearerToken(h) ==
    IF ~ h.present THEN Nothing
    ELSE IF ~ h.ascii THEN Invalid
    ELSE IF h.carries THEN Some(h.token) ELSE Nothing

\* 2. else the cookie auth_token; no Cookie header or no such cookie is the error.
CookieToken(c) ==
    IF ~ c.present THEN Invalid
    ELSE IF ~ c.ascii THEN Invalid
    ELSE IF c.carries THEN Some(c.token) ELSE Invalid

ExtractToken(h, c) ==
    IF BearerToken(h).is = "none" THEN CookieToken(c) ELSE BearerToken(h)

\* validate_token accepting a token past its exp.
ValidateTokenAnyAge(t) == t.form = "jwt" /\ t.key = JwtSecret

\* validate_token: decode with Validation::default() checks the form, the
\* signature against the secret and the expiration; every error is InvalidToken.
ValidateToken(t) == t.form = "jwt" /\ t.key = JwtSecret /\ ~ t.expired

\* Claims::user_id: sub parses as a UUID.
ParsesAsUuid(sub) == sub \in Registered

\* AuthUser::from_request_parts: the caller's user id, or InvalidToken.
FromRequestParts(h, c) ==
    LET r == ExtractToken(h, c) IN
    IF r.is = "some" /\ ValidateToken(r.token) /\ ParsesAsUuid(r.token.sub)
    THEN [status |-> "Ok", user |-> r.token.sub]
    ELSE [status |-> "InvalidToken", user |-> "none"]

\* A request for one of the wallet handlers arrives at task p; the handler's
\* first argument is AuthUser, so the extractor runs before its body.
GateRequest(p, h, c, kind) ==
    /\ gate[p].pc = "idle" /\ pc[p] = "idle"
    /\ gate' = [gate EXCEPT ![p] = [pc |-> "extract", header |-> h, cookie |-> c,
                                    kind |-> kind, status |-> "none"]]
    /\ UNCHANGED <<ledgerVars, rateVars, wsVars>>

\* The extractor fails: the rejection AppError::InvalidToken is the response
\* and the handler's body does not run.
GateReject(p) ==
    /\ gate[p].pc = "extract"
    /\ FromRequestParts(gate[p].header, gate[p].cookie).status = "InvalidToken"
    /\ gate' = [gate EXCEPT ![p].pc = "rejected", ![p].status = "InvalidToken"]
    /\ UNCHANGED <<ledgerVars, rateVars, wsVars>>

\* The history handler's body: get_history for the caller; the rows are those
\* of the caller's wallet, their order being left aside here.
GateHistory(p, u) ==
    /\ history[p].user = None
    /\ history' = [history EXCEPT ![p] =
                     [user |-> u, rows |-> SelectSeq(log, LAMBDA e : e.wallet_id = u)]]
    /\ UNCHANGED <<balance, log, lock, pc, op, tx, local, result, snap, mail, waited,
                   authVars, edgeVars>>

\* The extractor yields AuthUser(user_id) and the handler's body calls the
\* wallet service with it.
GateHandler(p) ==
    /\ gate[p].pc = "extract"
    /\ LET r == FromRequestParts(gate[p].header, gate[p].cookie) IN
        /\ r.status = "Ok"
        /\ CASE gate[p].kind = "deposit"  -> CallDeposit(p, r.user, 1)
             [] gate[p].kind = "withdraw" -> CallWithdraw(p, r.user, 1)
             [] gate[p].kind = "transfer" ->
                    \E e \in {"a@x.com", "b@x.com"} : CallTransfer(p, r.user, e, 1)
             [] OTHER -> GateHistory(p, r.user)

NextGate == \E p \in Procs :
    \/ \E h \in AuthorizationHeaders, c \in CookieHeaders, kind \in Handlers :
            GateRequest(p, h, c, kind)
    \/ GateReject(p)
    \/ GateHandler(p)
    \/ Begin(p)
    \/ DepositLock(p) \/ DepositUpdate(p) \/ DepositInsert(p) \/ DepositCommit(p)
    \/ WithdrawLock(p) \/ WithdrawUpdate(p) \/ WithdrawInsert(p) \/ WithdrawCommit(p)
    \/ TransferLockSender(p) \/ TransferFindRecipient(p) \/ TransferLockRecipient(p)
    \/ TransferUpdateSender(p) \/ TransferInsertSent(p)
    \/ TransferUpdateRecipient(p) \/ TransferInsertReceived(p) \/ TransferCommit(p)
    \/ DeadlockDetected(p)
    \/ LockWait(p)

\* Every wallet holds one deposit and no request has arrived.
InitGate == Init /\ \A u \in Users : balance[u] > 0

SpecGate == InitGate /\ [][NextGate]_vars

\* ------------------------------------------------------- notification registry
\* A cookie of user u has been accepted and the socket upgraded: handle_socket
\* starts for connection c and creates its channel.
WsConnect(c, u) ==
    /\ conn[c].pc = "closed"
    /\ conn' = [conn EXCEPT ![c] = [pc |-> "register", user |-> u]]
    /\ UNCHANGED <<clients, sent, ledgerVars, rateVars, gate>>

\* add_client: clients.insert(user_id, sender) puts the connection's sender in
\* place of the one the user had, which is dropped.
WsAddClient(c) ==
    /\ conn[c].pc = "register"
    /\ clients' = [clients EXCEPT ![conn[c].user] = c]
    /\ conn' = [conn EXCEPT ![c].pc = "open"]
    /\ UNCHANGED <<sent, ledgerVars, rateVars, gate>>

\* The client closes the socket or the socket fails: recv_task or send_task
\* ends and select! returns.
WsClose(c) ==
    /\ conn[c].pc = "open"
    /\ conn' = [conn EXCEPT ![c].pc = "cleanup"]
    /\ UNCHANGED <<clients, sent, ledgerVars, rateVars, gate>>

\* The connection's sender is no longer in the map, so its channel has no
\* sender left: rx.recv() yields None, send_task ends and select! returns.
WsChannelClosed(c) ==
    /\ conn[c].pc = "open" /\ clients[conn[c].user] # c
    /\ conn' = [conn EXCEPT ![c].pc = "cleanup"]
    /\ UNCHANGED <<clients, sent, ledgerVars, rateVars, gate>>

\* remove_client: clients.remove(user_id) takes out whatever sender the user has.
WsRemoveClient(c) ==
    /\ conn[c].pc = "cleanup"
    /\ clients' = [clients EXCEPT ![conn[c].user] = None]
    /\ conn' = [conn EXCEPT ![c] = NoConn]
    /\ UNCHANGED <<sent, ledgerVars, rateVars, gate>>

\* send_to_user: the message goes into the channel of the registered sender,
\* if the user has one and the channel's receiver still exists.
SendToUser(u) ==
    /\ sent' = [user |-> u,
                to |-> IF clients[u] = None THEN "offline"
                       ELSE IF conn[clients[u]].pc = "open" /\ conn[clients[u]].user = u
                            THEN clients[u] ELSE "failed"]
    /\ UNCHANGED <<clients, conn, ledgerVars, rateVars, gate>>

WsUsers == {"A", "B"}

NextWs ==
    \/ \E c \in Conns, u \in WsUsers : WsConnect(c, u)
    \/ \E c \in Conns : WsAddClient(c)
    \/ \E c \in Conns : WsClose(c)
    \/ \E c \in Conns : WsChannelClosed(c)
    \/ \E c \in Conns : WsRemoveClient(c)
    \/ \E u \in WsUsers : SendToUser(u)

\* No socket is open and the registry is empty (NotificationService::new).
InitWs == Init /\ \A u \in Users : balance[u] = MaxSeed

SpecWs == InitWs /\ [][NextWs]_vars

\* =================================================================== claims
RECURSIVE SumOver(_, _)
SumOver(f, S) ==
    IF S = {} THEN 0
    ELSE LET x == CHOOSE y \in S : TRUE IN f[x] + SumOver(f, S \ {x})

\* The sum of the amounts of the log's entries of one transaction_type.
LogSum(type) ==
    SumOver([i \in 1..Len(log) |-> IF log[i].transaction_type = type
                                   THEN log[i].amount ELSE 0], 1..Len(log))

Finished(p, kind, status) ==
    pc[p] = "done" /\ op[p].kind = kind /\ result[p].status = status

\* C1: in every reachable state every wallet's committed balance is >= 0.
NoNegativeBalance == \A u \in Users : balance[u] >= 0

\* Two withdrawals raced for the same wallet: one took the money, the other was
\* refused.
NoNegativeBalanceWitness ==
    \E p, q \in Procs :
        /\ op[p].user = op[q].user
        /\ Finished(p, "withdraw", "Ok")
        /\ Finished(q, "withdraw", "InsufficientBalance")
        /\ balance[op[p].user] = 0

\* C2: the sum of all committed balances equals the sum of the DEPOSIT entries
\* minus the sum of the WITHDRAWAL entries; TRANSFER entries do not enter the sum,
\* so a committed transfer leaves it unchanged.
Conservation ==
    SumOver(balance, Users) = LogSum("DEPOSIT") - LogSum("WITHDRAWAL")

\* A transfer and a withdrawal have both committed.
ConservationWitness ==
    \E p, q \in Procs :
        /\ Finished(p, "transfer", "Ok")
        /\ Finished(q, "withdraw", "Ok")
        /\ LogSum("TRANSFER") > 0

\* The wallet a transfer's recipient_email names, None when no user has it.
RecipientOf(p) ==
    IF FindUserByEmail(op[p].email) = {} THEN None
    ELSE CHOOSE r \in FindUserByEmail(op[p].email) : TRUE

\* p and q are transfers in opposite directions between the same two wallets.
Reciprocal(p, q) ==
    /\ p # q
    /\ op[p].kind = "transfer" /\ op[q].kind = "transfer"
    /\ op[p].user # op[q].user
    /\ RecipientOf(p) = op[q].user /\ RecipientOf(q) = op[p].user

\* C3: when two transfers A->B and B->A of affordable amounts run concurrently,
\* no reachable state has each of them holding one wallet's lock while waiting
\* for the other's (and so both complete).
NoCircularWait ==
    \A p, q \in Procs :
        Reciprocal(p, q) =>
            ~ (/\ WaitsFor(p) = q /\ WaitsFor(q) = p
               /\ LocksOf(p) # {} /\ LocksOf(q) # {})

\* C4: a transfer X->Y and a transfer Y->X lock the same wallet first.
CanonicalLockOrder ==
    \A p, q \in Procs :
        (Reciprocal(p, q) /\ snap[p] # <<>> /\ snap[q] # <<>>) =>
            snap[p][1].user = snap[q][1].user

WithdrawalsOk == {w \in Workers : result[w].status = "Ok"}
WithdrawalsRefused == {w \in Workers : result[w].status = "InsufficientBalance"}
AllWithdrawalsDone == \A w \in Workers : pc[w] = "done"
\* The N of the race: the wallet's balance at the start over the common amount.
ContentionN == log[1].amount \div op[CHOOSE w \in Workers : TRUE].amount

\* C5: N concurrent withdrawals of balance / N each against one wallet all succeed
\* and leave the balance 0; of N + 1 such withdrawals exactly one fails with
\* InsufficientBalance and N succeed, in every interleaving.
SerializedWithdrawals ==
    AllWithdrawalsDone =>
        /\ balance["A"] = 0
        /\ Cardinality(Workers) = ContentionN => WithdrawalsOk = Workers
        /\ Cardinality(Workers) = ContentionN + 1 =>
              /\ Cardinality(WithdrawalsOk) = ContentionN
              /\ Cardinality(WithdrawalsRefused) = 1

\* N + 1 withdrawals have raced for N shares and all have returned.
SerializedWithdrawalsWitness ==
    /\ AllWithdrawalsDone
    /\ Cardinality(Workers) = ContentionN + 1
    /\ Cardinality(WithdrawalsRefused) = 1
    /\ Len(log) = ContentionN + 1

\* p's step ends its call with an error.
Fails(p) == pc[p] # "done" /\ pc'[p] = "done" /\ result'[p].status # "Ok"
\* p's step ends its call with success.
Succeeds(p) == pc[p] # "done" /\ pc'[p] = "done" /\ result'[p].status = "Ok"

\* After p's step every wallet p had locked has the committed balance and the
\* number of entries it had when p locked it.
AsBeforeLocking(p) ==
    \A i \in 1..Len(snap[p]) :
        /\ balance'[snap[p][i].user] = snap[p][i].bal
        /\ Cardinality(EntriesIn(log', snap[p][i].user)) = snap[p][i].n

TransferEntries(description) ==
    {i \in 1..Len(log) : /\ log[i].transaction_type = "TRANSFER"
                         /\ log[i].description = description}

\* C6: a transfer that fails at any step after both locks are acquired (sender
\* update, sender entry, recipient update, recipient entry, commit) leaves both
\* wallets' committed balances as they were when it locked them and no entry of
\* it in the log; a debit without the matching credit is never committed.
TransferAtomicity ==
    /\ [](Cardinality(TransferEntries("Transfer sent"))
            = Cardinality(TransferEntries("Transfer received")))
    /\ [][\A p \in Procs :
            (/\ op[p].kind = "transfer"
             /\ pc[p] \in {"update", "insert", "update2", "insert2", "commit"}
             /\ Fails(p)) => AsBeforeLocking(p)]_vars

\* A transfer that held both locks has failed in the store.
TransferAtomicityWitness ==
    \E p \in Procs :
        /\ Finished(p, "transfer", "DatabaseError")
        /\ Len(snap[p]) = 2
        /\ balance[op[p].user] = snap[p][1].bal

\* C7: deposit and withdraw commit the balance write and its entry together: a
\* failure after the balance update was issued (at the entry insert or the commit)
\* leaves the committed balance unchanged and records no entry, and no step
\* changes a wallet's committed balance without adding an entry for that wallet,
\* or adds an entry without changing the balance.
BalanceAndEntryTogether ==
    /\ [][\A p \in Procs :
            (/\ op[p].kind \in {"deposit", "withdraw"}
             /\ pc[p] \in {"insert", "commit"}
             /\ Fails(p)) => AsBeforeLocking(p)]_vars
    /\ [][\A u \in Users :
            (balance'[u] # balance[u]) <=> (EntriesIn(log', u) # EntriesIn(log, u))]_vars

\* A deposit failed in the store after its lock was taken, and a withdrawal
\* committed.
BalanceAndEntryTogetherWitness ==
    \E p, q \in Procs :
        /\ Finished(p, "deposit", "DatabaseError") /\ Len(snap[p]) = 1
        /\ Finished(q, "withdraw", "Ok")

\* C8: a successful transfer of m from S to R decreases S's balance by exactly m,
\* increases R's by exactly m, returns S's new balance and appends exactly two
\* TRANSFER entries of amount m: "Transfer sent" on S, "Transfer received" on R.
TransferMovesAmount ==
    [][\A p \in Procs :
        (op[p].kind = "transfer" /\ Succeeds(p)) =>
            LET S == op[p].user
                R == RecipientOf(p)
                m == op[p].amount
            IN /\ R \in Users \ {S}
               /\ balance' = [balance EXCEPT ![S] = @ - m, ![R] = @ + m]
               /\ result'[p].balance = balance'[S]
               /\ log' = log \o
                    << [wallet_id |-> S, transaction_type |-> "TRANSFER", amount |-> m,
                        description |-> "Transfer sent", status |-> "COMPLETED"],
                       [wallet_id |-> R, transaction_type |-> "TRANSFER", amount |-> m,
                        description |-> "Transfer received", status |-> "COMPLETED"] >>]_vars

\* A transfer has committed and the recipient holds more than the sender.
TransferMovesAmountWitness ==
    \E p \in Procs :
        /\ Finished(p, "transfer", "Ok")
        /\ balance[RecipientOf(p)] > balance[op[p].user]
        /\ Len(log) >= 2

\* The entries that can be the other half of the transfer entry log[i], by what
\* the rows hold: a TRANSFER row of the same amount, of the opposite direction,
\* on another wallet.
Counterparts(i) ==
    {j \in 1..Len(log) :
        /\ log[j].transaction_type = "TRANSFER"
        /\ log[j].amount = log[i].amount
        /\ log[j].description # log[i].description
        /\ log[j].wallet_id # log[i].wallet_id}

\* C9: for every TRANSFER entry of the log its counterpart entry on the other
\* wallet is uniquely identifiable, also after several transfers of the same
\* amount between the same wallets.
UniqueCounterpart ==
    \A i \in 1..Len(log) :
        log[i].transaction_type = "TRANSFER" => Cardinality(Counterparts(i)) = 1

\* p stands at its balance check with an amount above its wallet's balance.
AtCheckOverdrawn(p) ==
    /\ \/ op[p].kind = "withdraw" /\ pc[p] = "update"
       \/ op[p].kind = "transfer" /\ pc[p] = "find"
    /\ op[p].amount > balance[op[p].user]

\* C10: a withdraw, and a transfer, whose amount is greater than the (sender's)
\* balance fails with InsufficientBalance (unless the store fails first, which
\* is returned instead); either way the balances are unchanged, no entry is
\* appended and the call holds no lock afterwards.
OverdraftRejected ==
    [][\A p \in Procs :
        (AtCheckOverdrawn(p) /\ pc'[p] # pc[p]) =>
            /\ pc'[p] = "done"
            /\ result'[p].status \in {"InsufficientBalance", "DatabaseError"}
            /\ result'[p].status = "DatabaseError" => result'[p].msg = "store unavailable"
            /\ balance' = balance
            /\ log' = log
            /\ lock[op[p].user] = p
            /\ \A u \in Users : lock'[u] # p
            /\ lock'[op[p].user] = None]_vars

\* A withdraw and a transfer were both refused for lack of funds, and the
\* wallets are unlocked.
OverdraftRejectedWitness ==
    \E p, q \in Procs :
        /\ Finished(p, "withdraw", "InsufficientBalance")
        /\ Finished(q, "transfer", "InsufficientBalance")
        /\ op[p].amount > balance[op[p].user]
        /\ \A u \in Users : lock[u] = None

\* A call has been made by p.
Called(p) == op[p].kind # None

\* C11: deposit, withdraw and transfer called with amount <= 0 return the
\* validation error at once: no transaction is begun, no lock is taken, and the
\* balances and the log are as before.
InvalidAmountRejected ==
    /\ [][\A p \in Procs :
            (pc[p] = "idle" /\ pc'[p] # "idle" /\ op'[p].amount <= 0) =>
                /\ pc'[p] = "done"
                /\ result'[p].status = "ValidationError"
                /\ ~ tx'[p].open
                /\ \A u \in Users : lock'[u] # p
                /\ balance' = balance /\ log' = log]_vars
    /\ [](\A p \in Procs :
            (Called(p) /\ op[p].amount <= 0) =>
                /\ pc[p] = "done"
                /\ ~ tx[p].open /\ snap[p] = <<>> /\ LocksOf(p) = {})

\* A deposit of a negative amount, and a transfer of zero, have been refused.
InvalidAmountRejectedWitness ==
    \E p, q \in Procs :
        /\ Finished(p, "deposit", "ValidationError") /\ op[p].amount < 0
        /\ Finished(q, "transfer", "ValidationError") /\ op[q].amount = 0

\* C12: a transfer resolves the recipient before it begins its transaction and
\* before it takes any lock: no transfer stands at the lookup of the recipient
\* with an open transaction or a lock held.
ResolveBeforeLocking ==
    \A p \in Procs :
        (op[p].kind = "transfer" /\ pc[p] = "find") =>
            ~ tx[p].open /\ LocksOf(p) = {}

\* C13: a transfer whose recipient is the sender's own account never takes, and
\* never waits for, the sender's row lock.
SelfTransferTakesNoLock ==
    \A p \in Procs :
        (op[p].kind = "transfer" /\ op[p].amount > 0 /\ RecipientOf(p) = op[p].user) =>
            /\ snap[p] = <<>> /\ LocksOf(p) = {}
            /\ ~ (pc[p] = "lock" /\ op[p].user \in Users /\ lock[op[p].user] # None)

\* C14: a transfer of a positive amount to an identifier no user has fails with
\* the recipient-not-found error whatever the sender's balance is.
UnknownRecipientReported ==
    \A p \in Procs :
        (/\ pc[p] = "done" /\ op[p].kind = "transfer" /\ op[p].amount > 0
         /\ RecipientOf(p) = None /\ result[p].status # "DatabaseError") =>
            result[p].msg = "Recipient not found"

\* C15: an unresolved recipient is reported in the not-found class (404), which
\* differs from the validation class (400) of a non-positive amount or a
\* self-transfer and from the business-rule class (422) of insufficient balance.
UnknownRecipientIsNotFound ==
    \A p \in Procs :
        (pc[p] = "done" /\ result[p].msg = "Recipient not found") =>
            /\ StatusCode(result[p]) = 404
            /\ \A q \in Procs :
                 (pc[q] = "done" /\ StatusCode(result[q]) = StatusCode(result[p])) =>
                     result[q].msg = "Recipient not found"

\* C16: a successful deposit sets the wallet's balance to the balance it locked
\* plus the amount, returns that balance and appends exactly one DEPOSIT entry of
\* that amount on that wallet; a successful withdraw does the same with minus the
\* amount and one WITHDRAWAL entry.
DepositWithdrawEffect ==
    [][\A p \in Procs :
        (op[p].kind \in {"deposit", "withdraw"} /\ Succeeds(p)) =>
            LET u == op[p].user
                m == op[p].amount
                new == IF op[p].kind = "deposit" THEN snap[p][1].bal + m
                                                 ELSE snap[p][1].bal - m
            IN /\ m > 0
               /\ snap[p][1].user = u /\ balance[u] = snap[p][1].bal
               /\ balance' = [balance EXCEPT ![u] = new]
               /\ result'[p].balance = new
               /\ Len(log') = Len(log) + 1
               /\ SubSeq(log', 1, Len(log)) = log
               /\ log'[Len(log')].wallet_id = u
               /\ log'[Len(log')].amount = m
               /\ log'[Len(log')].status = "COMPLETED"
               /\ log'[Len(log')].transaction_type =
                    (IF op[p].kind = "deposit" THEN "DEPOSIT" ELSE "WITHDRAWAL")]_vars

\* A deposit and a withdrawal on the same wallet have both committed.
DepositWithdrawEffectWitness ==
    \E p, q \in Procs :
        /\ Finished(p, "deposit", "Ok") /\ Finished(q, "withdraw", "Ok")
        /\ op[p].user = op[q].user
        /\ op[p].amount # op[q].amount

\* C17: the log is append-only: every step keeps every committed entry, at its
\* place and with the same wallet, kind, amount, description and status.
LogAppendOnly ==
    [][/\ Len(log') >= Len(log)
       /\ SubSeq(log', 1, Len(log)) = log]_vars

\* Two calls have committed entries on top of those of the earlier deposits.
LogAppendOnlyWitness ==
    /\ \A p \in Procs : pc[p] = "done" /\ result[p].status = "Ok"
    /\ \E p, q \in Procs : p # q /\ op[p].user = op[q].user
    /\ Len(log) >= Cardinality(Users) + 2

\* C18: the notification is issued only by the step in which the transfer
\* commits, with the transaction closed and its locks released afterwards; a
\* transfer that failed or has not committed has issued none, a committed one
\* exactly one.
NotifyAfterCommit ==
    /\ [](\A p \in Procs :
            Len(mail[p]) = (IF Finished(p, "transfer", "Ok") THEN 1 ELSE 0))
    /\ [][\A p \in Procs :
            Len(mail'[p]) # Len(mail[p]) =>
                /\ op[p].kind = "transfer" /\ Succeeds(p)
                /\ Len(mail'[p]) = Len(mail[p]) + 1
                /\ log' # log
                /\ ~ tx'[p].open
                /\ \A u \in Users : lock'[u] # p]_vars

\* One transfer has committed and issued its notification, another has failed
\* after taking both locks.
NotifyAfterCommitWitness ==
    \E p, q \in Procs :
        /\ Finished(p, "transfer", "Ok") /\ Len(mail[p]) = 1
        /\ Finished(q, "transfer", "DatabaseError") /\ Len(snap[q]) = 2

\* C19: whether the notification is delivered, fails or never finishes has no
\* effect on the transfer: the transfer returns its result while the
\* notification is still pending, and the end of the notification task changes
\* neither the result nor the balances, the log or the locks.
NotificationDecoupled ==
    /\ [][\A p \in Procs :
            (op[p].kind = "transfer" /\ Succeeds(p)) =>
                /\ mail'[p] = <<"pending">>
                /\ result'[p].balance = snap[p][1].bal - op[p].amount]_vars
    /\ [][\A p \in Procs :
            (mail'[p] # mail[p] /\ Len(mail'[p]) = Len(mail[p])) =>
                /\ pc[p] = "done"
                /\ UNCHANGED <<balance, log, lock, pc, tx>>
                /\ \A q \in Procs :
                     /\ result'[q].status = result[q].status
                     /\ result'[q].status = "Ok" =>
                            result'[q].balance = result[q].balance]_vars

\* Two transfers have committed: the notification of one has failed, that of the
\* other has not finished, and both have returned Ok.
NotificationDecoupledWitness ==
    \E p, q \in Procs :
        /\ Finished(p, "transfer", "Ok") /\ mail[p] = <<"failed">>
        /\ Finished(q, "transfer", "Ok") /\ mail[q] = <<"pending">>

\* C20: a lock wait is bounded by a timeout: no task is still waiting for a row
\* lock once its wait has lasted longer than LockTimeout; by then it has the lock
\* or has returned an error.
LockTimeout == MaxWait - 1

LockWaitTimesOut ==
    \A p \in Procs : WaitsFor(p) \notin {None, p} => waited[p] <= LockTimeout

\* What a deposit or withdrawal adds to its wallet's balance.
SignedAmount(p) == IF op[p].kind = "deposit" THEN op[p].amount ELSE 0 - op[p].amount

\* p locked the wallet before q did: q read the balance p left.
LockedBefore(p, q) ==
    /\ result[p].balance = snap[p][1].bal + SignedAmount(p)
    /\ snap[q][1].bal = result[p].balance
    /\ result[q].balance = snap[q][1].bal + SignedAmount(q)
    /\ balance[op[q].user] = result[q].balance

\* C21: when two deposits or withdrawals on one wallet have both succeeded, one of
\* them locked the wallet first and the other started from the balance the first
\* left, so the final balance is the initial balance plus the deposited minus the
\* withdrawn amounts: no update is lost.
NoLostUpdates ==
    \A p, q \in Procs :
        (/\ p # q
         /\ op[p].user = op[q].user
         /\ \E k \in {"deposit", "withdraw"} : Finished(p, k, "Ok")
         /\ \E k \in {"deposit", "withdraw"} : Finished(q, k, "Ok")) =>
            /\ LockedBefore(p, q) \/ LockedBefore(q, p)
            /\ \E first \in {p, q} :
                 balance[op[p].user] =
                    snap[first][1].bal + SignedAmount(p) + SignedAmount(q)

\* A deposit and a withdrawal of different amounts on one wallet, seeded with
\* MaxSeed, have both succeeded.
NoLostUpdatesWitness ==
    \E p, q \in Procs :
        /\ op[p].user = op[q].user
        /\ Finished(p, "deposit", "Ok") /\ Finished(q, "withdraw", "Ok")
        /\ balance[op[p].user] = MaxSeed + op[p].amount - op[q].amount
        /\ op[p].amount # op[q].amount

\* C22: a read outside the transactions never sees an operation in flight. While
\* an operation holds a wallet's lock the wallet's row and history read as they
\* were when it was locked; what a read returns changes only in the step that
\* commits the operation holding the lock (so never for one that aborts), and a
\* transfer's commit changes the sender's and the recipient's row and history in
\* that one step.
NoIntermediateStateVisible ==
    /\ [](\A p \in Procs : \A i \in 1..Len(snap[p]) :
            lock[snap[p][i].user] = p =>
                /\ GetWalletByUserId(snap[p][i].user) = snap[p][i].bal
                /\ Cardinality(HistoryRows(snap[p][i].user)) = snap[p][i].n)
    /\ [][\A u \in Users :
            (\/ GetWalletByUserId(u)' # GetWalletByUserId(u)
             \/ HistoryRows(u)' # HistoryRows(u)) =>
                \E p \in Procs : Succeeds(p) /\ lock[u] = p]_vars
    /\ [][\A p \in Procs :
            (op[p].kind = "transfer" /\ Succeeds(p)) =>
                \A u \in {op[p].user, RecipientOf(p)} :
                    /\ GetWalletByUserId(u)' # GetWalletByUserId(u)
                    /\ Cardinality(HistoryRows(u)') = Cardinality(HistoryRows(u)) + 1]_vars

\* A transfer has written the sender's new balance and its entry inside its
\* transaction and holds both locks, while another transfer has aborted after it
\* had locked both of its wallets.
NoIntermediateStateVisibleWitness ==
    \E p, q \in Procs :
        /\ op[p].kind = "transfer" /\ pc[p] = "update2"
        /\ tx[p].bal # <<>> /\ tx[p].entries # <<>>
        /\ Finished(q, "transfer", "DatabaseError") /\ Len(snap[q]) = 2

\* C23: a call that has returned holds no lock, whichever way it returned; the
\* step that ends a call releases every lock the call held and closes its
\* transaction.
LocksReleasedOnReturn ==
    /\ [](\A p \in Procs : pc[p] \in {"idle", "begin", "done"} =>
            (LocksOf(p) = {} /\ ~ tx[p].open))
    /\ [][\A p \in Procs : (Fails(p) \/ Succeeds(p)) =>
            \A u \in Users : lock[u] = p => lock'[u] = None]_vars

\* One transfer has returned not-found for the recipient's missing wallet after it
\* had locked the sender's wallet, another has returned the self-transfer refusal,
\* and no lock is held.
LocksReleasedOnReturnWitness ==
    \E p, q \in Procs :
        /\ Finished(p, "transfer", "NotFound") /\ Len(snap[p]) = 1
        /\ Finished(q, "transfer", "ValidationError") /\ Len(snap[q]) = 1
        /\ result[q].msg = "Cannot transfer money to yourself"
        /\ \A u \in Users : lock[u] = None

\* C24: two calls of get_history for one wallet with no committed change between
\* them return the same rows in the same order, also when rows of the wallet
\* carry equal created_at.
HistoryIdempotent ==
    \A p, q \in Procs :
        (history[p].user # None /\ history[p].user = history[q].user) =>
            history[p].rows = history[q].rows

\* C25: get_history returns exactly the committed rows of the wallet, each once,
\* and no row of another wallet, newest first: a row committed later never comes
\* after a row committed earlier.
HistoryNewestFirst ==
    \A p \in Procs :
        history[p].user # None =>
            LET h == history[p].rows IN
            /\ {h[i] : i \in 1..Len(h)} = HistoryRows(history[p].user)
            /\ Len(h) = Cardinality(HistoryRows(history[p].user))
            /\ \A i, j \in 1..Len(h) : i < j => h[i] > h[j]

\* The wallets p's call is about: its own, and for a transfer the recipient's.
Involved(p) ==
    IF op[p].kind = "transfer" THEN {op[p].user, RecipientOf(p)} ELSE {op[p].user}

\* C26: operations on different wallets do not interfere: a wallet's committed
\* balance and entries change only in the committing step of a call that is about
\* that wallet (a deposit or withdrawal on it, a transfer from or to it); a call
\* takes and asks for the locks of its own wallets only, so it waits only for a
\* call about the same wallet.
NoInterference ==
    /\ [][\A u \in Users :
            (balance'[u] # balance[u] \/ EntriesIn(log', u) # EntriesIn(log, u)) =>
                \E p \in Procs : Succeeds(p) /\ u \in Involved(p)]_vars
    /\ [](\A p \in Procs :
            /\ LocksOf(p) \subseteq Involved(p)
            /\ Wanted(p) # None => Wanted(p) \in Involved(p)
            /\ WaitsFor(p) \notin {None, p} => Wanted(p) \in Involved(WaitsFor(p)))

\* A deposit on one wallet has committed while a withdrawal on another wallet
\* holds that wallet's lock with its writes uncommitted.
NoInterferenceWitness ==
    \E p, q \in Procs :
        /\ op[p].user # op[q].user
        /\ Finished(p, "deposit", "Ok")
        /\ op[q].kind = "withdraw" /\ pc[q] = "commit" /\ lock[op[q].user] = q
        /\ balance[op[p].user] = MaxSeed + op[p].amount
        /\ balance[op[q].user] = MaxSeed

\* C27: a failure of the store is returned to the caller as DatabaseError, which
\* is reported with 500, and nothing is tried again: the step that ends a call's
\* transaction ends the call, a call that has returned stays returned, a
\* transaction is begun only by a call that has not had one, and inside a
\* transaction each wallet is written once and each entry inserted once.
StoreFaultSurfaced ==
    /\ [](\A p \in Procs :
            (pc[p] = "done" /\ result[p].status = "DatabaseError") =>
                (StatusCode(result[p]) = 500 /\ ~ tx[p].open))
    /\ [][\A p \in Procs :
            /\ (tx[p].open /\ ~ tx'[p].open) => pc'[p] = "done"
            /\ (pc[p] \in InTx \cup {"begin"} /\ pc'[p] \notin InTx \cup {"begin"}) =>
                  pc'[p] = "done"
            /\ pc[p] = "done" =>
                  (pc'[p] = "done" /\ result'[p].status = result[p].status
                                   /\ ~ tx'[p].open)
            /\ (~ tx[p].open /\ tx'[p].open) => (pc[p] = "begin" /\ snap[p] = <<>>)
            /\ (tx[p].open /\ tx'[p].open) =>
                  /\ \A u \in DOMAIN tx[p].bal :
                        u \in DOMAIN tx'[p].bal /\ tx'[p].bal[u] = tx[p].bal[u]
                  /\ SubSeq(tx'[p].entries, 1, Len(tx[p].entries)) = tx[p].entries
                  /\ Len(tx'[p].entries) <= Len(tx[p].entries) + 1]_vars
    /\ [](\A p \in Procs :
            Len(tx[p].entries) <= (IF op[p].kind = "transfer" THEN 2 ELSE 1))

\* One transfer failed in the store with both wallets locked and its debit
\* written, another failed at begin(); both have returned DatabaseError.
StoreFaultSurfacedWitness ==
    \E p, q \in Procs :
        /\ Finished(p, "transfer", "DatabaseError") /\ Len(snap[p]) = 2
        /\ result[p].msg = "store unavailable"
        /\ Finished(q, "deposit", "DatabaseError") /\ snap[q] = <<>>

\* The wallet rows owned by user id.
WalletsOf(id) == {w \in 1..Len(wallet_owner) : wallet_owner[w] = id}

\* C28: every user has exactly one wallet, created with balance 0: once a call of
\* register has returned, with success or with an error, the user row it stored
\* (if any) has exactly one wallet row, and every wallet row holds balance 0.
OneWalletPerUser ==
    /\ \A p \in Procs :
        (auth[p].kind = "register" /\ auth[p].pc = "done" /\ auth[p].user # 0) =>
            Cardinality(WalletsOf(auth[p].user)) = 1
    /\ \A w \in 1..Len(balance) : balance[w] = 0

\* The outcome of a call of login as the caller sees it.
LoginOutcome(p) == <<auth[p].status, StatusCode(auth[p])>>

\* C29: a login with an email no user has and a login with a user's email and a
\* wrong password have the same outcome, InvalidCredentials with 401; only the
\* right password of the user found gives Ok.
LoginDoesNotRevealEmail ==
    \A p \in Procs :
        (auth[p].kind = "login" /\ auth[p].pc = "done" /\ auth[p].lookup # "fault") =>
            IF auth[p].lookup = "RowNotFound"
            THEN LoginOutcome(p) = <<"InvalidCredentials", 401>>
            ELSE \E r \in users :
                    /\ r.id = auth[p].user /\ r.email = auth[p].email
                    /\ IF VerifyPassword(auth[p].password, r.password_hash)
                       THEN LoginOutcome(p) = <<"Ok", 200>>
                       ELSE LoginOutcome(p) = <<"InvalidCredentials", 401>>

\* One login named an email no user has, another named a user's email with a
\* wrong password; both have returned.
LoginDoesNotRevealEmailWitness ==
    \E p, q \in Procs :
        /\ auth[p].kind = "login" /\ auth[p].pc = "done" /\ auth[p].lookup = "RowNotFound"
        /\ auth[q].kind = "login" /\ auth[q].pc = "done" /\ auth[q].lookup = "found"
        /\ auth[q].password = "password-2"
        /\ LoginOutcome(p) = LoginOutcome(q)

\* C30: login returns InvalidCredentials only when the email or the password is
\* wrong, and DatabaseError when the lookup of the user fails in the store.
LoginFaultIsDatabaseError ==
    \A p \in Procs :
        (auth[p].kind = "login" /\ auth[p].pc = "done") =>
            /\ auth[p].lookup = "fault" => auth[p].status = "DatabaseError"
            /\ auth[p].status = "InvalidCredentials" => auth[p].lookup # "fault"

\* C32: a transfer of a positive amount to the sender's own identifier is refused
\* as a self-transfer whatever the sender's balance is, also when the balance is
\* below the amount.
SelfTransferRejected ==
    \A p \in Procs :
        (/\ pc[p] = "done" /\ op[p].kind = "transfer" /\ op[p].amount > 0
         /\ RecipientOf(p) = op[p].user /\ result[p].status # "DatabaseError") =>
            result[p].msg = "Cannot transfer money to yourself"

\* C33: every balance write is made inside an open transaction by the call that
\* holds the wallet's row lock: a transaction's uncommitted balance writes are on
\* wallets it has locked, and a committed balance changes only in a step of the
\* call that holds the wallet's lock and has written it.
WritesUnderLock ==
    /\ [](\A p \in Procs : \A u \in DOMAIN tx[p].bal :
            tx[p].open /\ lock[u] = p)
    /\ [][\A u \in Users :
            balance'[u] # balance[u] =>
                \E p \in Procs :
                    /\ tx[p].open /\ lock[u] = p
                    /\ u \in DOMAIN tx[p].bal /\ balance'[u] = tx[p].bal[u]]_vars

\* A transfer stands before its commit with both balances written in its
\* transaction and both locks held.
WritesUnderLockWitness ==
    \E p \in Procs :
        /\ op[p].kind = "transfer" /\ pc[p] = "commit"
        /\ DOMAIN tx[p].bal = {op[p].user, RecipientOf(p)}
        /\ LocksOf(p) = {op[p].user, RecipientOf(p)}

\* p's call names a user without a wallet: as the caller, or for a transfer as
\* the recipient resolved.
WalletMissing(p) ==
    \/ op[p].user \notin Users
    \/ op[p].kind = "transfer" /\ RecipientOf(p) \in Registered \ Users

\* C34: a call of a positive amount for a user without a wallet (deposit, withdraw
\* or transfer by such a user, transfer to such a user) fails with NotFound, and
\* the step that ends it leaves every balance and the log as they were and no
\* lock with the call.
MissingWalletNotFound ==
    /\ [](\A p \in Procs :
            (/\ pc[p] = "done" /\ op[p].amount > 0 /\ WalletMissing(p)
             /\ result[p].status # "DatabaseError") =>
                (result[p].status = "NotFound" /\ StatusCode(result[p]) = 404))
    /\ [][\A p \in Procs :
            (Fails(p) /\ WalletMissing(p)) =>
                /\ balance' = balance /\ log' = log
                /\ \A u \in Users : lock'[u] # p]_vars

\* The rows of l of one transaction type, and of one description.
RowsOfType(l, type) == {i \in 1..Len(l) : l[i].transaction_type = type}
RowsDescribed(l, d) == {i \in 1..Len(l) : l[i].description = d}

\* C35: the log grows by one entry in the step that commits a deposit or a
\* withdrawal, by two in the step that commits a transfer, and in no other
\* step; so its length is always the number of DEPOSIT and WITHDRAWAL rows plus
\* twice the number of transfers, each transfer having one 'sent' and one
\* 'received' row.
LogCountsCommits ==
    /\ [](/\ Cardinality(RowsDescribed(log, "Transfer sent"))
             = Cardinality(RowsDescribed(log, "Transfer received"))
          /\ Len(log) = Cardinality(RowsOfType(log, "DEPOSIT"))
                        + Cardinality(RowsOfType(log, "WITHDRAWAL"))
                        + 2 * Cardinality(RowsDescribed(log, "Transfer sent")))
    /\ [][/\ \A p \in Procs : Succeeds(p) =>
                Len(log') = Len(log) + (IF op[p].kind = "transfer" THEN 2 ELSE 1)
          /\ (~ \E p \in Procs : Succeeds(p)) => Len(log') = Len(log)]_vars

\* One task's transfer has committed after the seeding deposits, adding two
\* rows, and the other task's call has failed, adding none.
LogCountsCommitsWitness ==
    /\ Len(log) = Cardinality(Users) + 2
    /\ \E p, q \in Procs :
         /\ Finished(p, "transfer", "Ok")
         /\ pc[q] = "done" /\ result[q].status = "InsufficientBalance"

\* What a row of the log adds to its wallet's balance.
RowEffect(e) ==
    CASE e.transaction_type = "DEPOSIT"    -> e.amount
      [] e.transaction_type = "WITHDRAWAL" -> 0 - e.amount
      [] e.transaction_type = "TRANSFER" /\ e.description = "Transfer received"
                                           -> e.amount
      [] OTHER                             -> 0 - e.amount

RECURSIVE WalletLogSum(_, _)
WalletLogSum(l, u) ==
    IF l = <<>> THEN 0
    ELSE (IF Head(l).wallet_id = u THEN RowEffect(Head(l)) ELSE 0)
         + WalletLogSum(Tail(l), u)

\* C36: every wallet's committed balance is the sum of its DEPOSIT and received
\* TRANSFER amounts minus the sum of its WITHDRAWAL and sent TRANSFER amounts.
BalanceFromLog == \A u \in Users : balance[u] = WalletLogSum(log, u)

\* A wallet has rows of a deposit, of a withdrawal and of a transfer sent, and
\* another has the row of the transfer received.
BalanceFromLogWitness ==
    \E u, v \in Users :
        /\ u # v
        /\ \E i \in EntriesOf(u) : log[i].transaction_type = "DEPOSIT"
        /\ \E i \in EntriesOf(u) : log[i].transaction_type = "WITHDRAWAL"
        /\ \E i \in EntriesOf(u) : log[i].description = "Transfer sent"
        /\ \E i \in EntriesOf(v) : log[i].description = "Transfer received"

\* The requests from ip handed on during the limiter's current window of ip:
\* from its reset_time to RATE_LIMIT_WINDOW seconds later.
AdmittedInWindow(ip) ==
    {i \in 1..Len(admits[ip]) :
        /\ admits[ip][i] >= limiter[ip].reset_time
        /\ admits[ip][i] <= limiter[ip].reset_time + RATE_LIMIT_WINDOW}

\* Task p's request is decided in this step.
Decided(p) == req[p].pc = "idle" /\ req'[p].pc # "idle"

\* C31: in whatever order the tasks' requests are decided, at most MAX_REQUESTS
\* requests of one IP are handed on during one window of the limiter, the
\* RATE_LIMIT_WINDOW seconds from the IP's reset_time; and a request changes the
\* limiter's entry and the admissions of its own IP only.
AtMostMaxPerWindow ==
    /\ [](\A ip \in IPs : Cardinality(AdmittedInWindow(ip)) <= MAX_REQUESTS)
    /\ [][\A ip \in IPs :
            (\/ limiter'[ip].count # limiter[ip].count
             \/ limiter'[ip].reset_time # limiter[ip].reset_time
             \/ limiter'[ip].present # limiter[ip].present
             \/ Len(admits'[ip]) > Len(admits[ip])) =>
                \E p \in Procs : Decided(p) /\ req'[p].ip = ip]_vars

\* One IP has used up its window, over two instants of it, and has a request
\* rejected, while a request of the other IP is handed on.
AtMostMaxPerWindowWitness ==
    \E p, q \in Procs, ip, other \in IPs :
        /\ ip # other /\ now = RATE_LIMIT_WINDOW
        /\ Cardinality(AdmittedInWindow(ip)) = MAX_REQUESTS
        /\ limiter[ip].reset_time = 0 /\ admits[ip][Len(admits[ip])] = now
        /\ req[p] = [pc |-> "rejected", ip |-> ip]
        /\ req[q] = [pc |-> "run", ip |-> other]

\* C38: a request arriving more than RATE_LIMIT_WINDOW seconds after its IP's
\* reset_time is handed on and leaves the IP with count 1 and the reset_time of
\* its arrival; a rejected request leaves the limiter's map as it was.
ExpiredWindowReadmits ==
    [][\A p \in Procs : Decided(p) =>
         LET ip == req'[p].ip IN
            /\ (limiter[ip].present
                /\ now - limiter[ip].reset_time > RATE_LIMIT_WINDOW) =>
                    /\ req'[p].pc = "run"
                    /\ limiter'[ip].count = 1 /\ limiter'[ip].reset_time = now
            /\ req'[p].pc = "rejected" =>
                    \A i \in IPs : /\ limiter'[i].count = limiter[i].count
                                   /\ limiter'[i].reset_time = limiter[i].reset_time]_vars

\* A request of an IP was rejected in the window that began at 0, and after
\* the window has expired another request of the IP has been handed on.
ExpiredWindowReadmitsWitness ==
    \E p, q \in Procs, ip \in IPs :
        /\ req[q] = [pc |-> "rejected", ip |-> ip]
        /\ req[p] = [pc |-> "run", ip |-> ip]
        /\ now > RATE_LIMIT_WINDOW
        /\ limiter[ip].count = 1 /\ limiter[ip].reset_time = now

\* The tokens a request carries, as Bearer token or as the cookie auth_token.
CarriedTokens(g) ==
    {h.token : h \in {x \in {g.header, g.cookie} : x.present /\ x.ascii /\ x.carries}}

\* A token that generate_token issued with the server's secret to a user and
\* whose exp has not passed.
GoodToken(t) == t.form = "jwt" /\ t.key = JwtSecret /\ ~ t.expired /\ t.sub \in Registered

\* Task p runs, or has run, a ledger operation or a history read.
InLedger(p) == pc[p] # "idle" \/ history[p].user # None \/ op[p].kind # None

\* C37: a ledger operation or history read runs for a task only after the
\* extractor has resolved the caller from a good token the request carries, and
\* with that caller; a request carrying no token, or only malformed, wrongly
\* signed or expired ones, is answered with InvalidToken in a step that leaves
\* balances and log as they were, and no operation ever runs for it.
CallerResolvedFirst ==
    /\ [](\A p \in Procs :
            /\ InLedger(p) =>
                 \E t \in CarriedTokens(gate[p]) :
                    /\ GoodToken(t)
                    /\ op[p].kind # None => op[p].user = t.sub
                    /\ history[p].user # None => history[p].user = t.sub
            /\ (gate[p].pc = "rejected"
                \/ ~ \E t \in CarriedTokens(gate[p]) : GoodToken(t)) => ~ InLedger(p))
    /\ [][\A p \in Procs :
            (gate[p].pc = "extract"
             /\ ~ \E t \in CarriedTokens(gate[p]) : GoodToken(t)) =>
                \/ gate'[p].pc = "extract" /\ ~ InLedger(p)'
                \/ /\ gate'[p].pc = "rejected" /\ gate'[p].status = "InvalidToken"
                   /\ balance' = balance /\ log' = log]_vars

\* One task's withdrawal with an expired token has been rejected while the
\* deposit of the other, which sent a good token as a cookie, has committed.
CallerResolvedFirstWitness ==
    \E p, q \in Procs :
        /\ gate[p].pc = "rejected" /\ gate[p].kind = "withdraw"
        /\ gate[p].header.carries /\ gate[p].header.token.expired
        /\ ~ gate[q].header.present /\ gate[q].cookie.carries
        /\ Finished(q, "deposit", "Ok")

\* The connections of user u that handle_socket has registered and that have
\* not ended.
OpenConns(u) == {c \in Conns : conn[c].pc = "open" /\ conn[c].user = u}

\* C39: while a user has an open connection, the registry holds for the user
\* the sender of one of the user's open connections, and send_to_user for the
\* user reaches an open connection of the user.
RegistryHoldsLiveSender ==
    /\ [](\A u \in Users : OpenConns(u) # {} => clients[u] \in OpenConns(u))
    /\ [][\A u \in Users :
            (OpenConns(u) # {} /\ sent'.user = u /\ (sent'.to # sent.to \/ sent'.user # sent.user))
                => sent'.to \in OpenConns(u)]_vars
====
